---- MODULE Spec2Model ----
(***************************************************************************)
(* Turning Movement dashboard (src/app.py).                                *)
(*                                                                         *)
(* The script is re-executed top to bottom for every interaction of a      *)
(* session: client, fetch, coercion + dropna, bounding box, write-back,    *)
(* widgets, filters, aggregation, charts, prediction form.  One action     *)
(* models one statement group of the script; pc[s] is the position of      *)
(* session s in the script.                                                *)
(*                                                                         *)
(* Scaling.  Coordinates are integers in tenths of a degree (37.0 -> 370). *)
(* A timestamp is an integer number of ticks, TicksPerDay ticks a day;     *)
(* tick 0 of a day is midnight.  A predicted value is an integer number of *)
(* hundredths.                                                             *)
(***************************************************************************)
EXTENDS Integers, Sequences, FiniteSets, Bags, TLC

\* ------------------------------------------------------------------ bounds
MaxRows == 2
MaxRuns == 2
MaxDay == 2
TicksPerDay == 2

\* ------------------------------------------------------- program constants
RowLimit == 5000
LatLow == 370
LatHigh == 380
LonLow == -1225
LonHigh == -1215
TopN == 10
AutosblDefault == 10
AutosbtDefault == 100

Sessions == {1, 2}

\* ------------------------------------------------------------ cell values
\* A cell is null (None / NaN / NaT), a number, a timestamp or a string.
\* The text of a LATITUDE, LONGITUDE or DATE cell is a sequence of
\* characters; the text of an INTNAME cell is compared as a whole.
Null == [k |-> "null"]
Num(v) == [k |-> "num", v |-> v]
Ts(v) == [k |-> "ts", v |-> v]
Str(s) == [k |-> "str", s |-> s]

isna(x) == x.k = "null"

DigitVal ==
    ("0" :> 0) @@ ("1" :> 1) @@ ("2" :> 2) @@ ("3" :> 3) @@ ("4" :> 4) @@
    ("5" :> 5) @@ ("6" :> 6) @@ ("7" :> 7) @@ ("8" :> 8) @@ ("9" :> 9)

IsDigits(s) == Len(s) > 0 /\ \A i \in 1..Len(s) : s[i] \in DOMAIN DigitVal

RECURSIVE DigitsVal(_)
DigitsVal(s) ==
    IF s = <<>> THEN 0
    ELSE DigitsVal(SubSeq(s, 1, Len(s) - 1)) * 10 + DigitVal[s[Len(s)]]

Positions(s, c) == {i \in 1..Len(s) : s[i] = c}

\* Decimal text "[-]ddd" or "[-]ddd.d" to tenths; anything else is NaN.
ParseFloat(s) ==
    LET neg == Len(s) > 0 /\ s[1] = "-"
        body == IF neg THEN Tail(s) ELSE s
        sign == IF neg THEN -1 ELSE 1
        dots == Positions(body, ".")
    IN  IF dots = {}
        THEN IF IsDigits(body) THEN Num(sign * DigitsVal(body) * 10) ELSE Null
        ELSE IF Cardinality(dots) = 1
        THEN LET p == CHOOSE i \in dots : TRUE
                 ip == SubSeq(body, 1, p - 1)
                 fp == SubSeq(body, p + 1, Len(body))
             IN  IF IsDigits(ip) /\ IsDigits(fp) /\ Len(fp) = 1
                 THEN Num(sign * (DigitsVal(ip) * 10 + DigitsVal(fp)))
                 ELSE Null
        ELSE Null

\* pd.to_numeric(column, errors='coerce'), one cell.
to_numeric(x) ==
    CASE x.k = "num" -> x
      [] x.k = "str" -> ParseFloat(x.s)
      [] OTHER -> Null

\* Timestamp text "d" (midnight of day d) or "dTt" (tick t of day d);
\* anything else is NaT.
ParseTimestamp(s) ==
    LET ts == Positions(s, "T")
    IN  IF ts = {}
        THEN IF IsDigits(s) THEN Ts(DigitsVal(s) * TicksPerDay) ELSE Null
        ELSE IF Cardinality(ts) = 1
        THEN LET p == CHOOSE i \in ts : TRUE
                 dp == SubSeq(s, 1, p - 1)
                 tp == SubSeq(s, p + 1, Len(s))
             IN  IF IsDigits(dp) /\ IsDigits(tp) /\ DigitsVal(tp) < TicksPerDay
                 THEN Ts(DigitsVal(dp) * TicksPerDay + DigitsVal(tp))
                 ELSE Null
        ELSE Null

\* pd.to_datetime(column, errors='coerce'), one cell.
to_datetime(x) ==
    CASE x.k = "ts" -> x
      [] x.k = "str" -> ParseTimestamp(x.s)
      [] OTHER -> Null

\* Timestamp -> calendar date (what the date picker keeps of a timestamp).
DateOf(t) == t \div TicksPerDay

\* pd.to_datetime(date): midnight of that day.
DateToTimestamp(d) == d * TicksPerDay

\* ------------------------------------------------------------ source data
Raw(lat, lon, date, name, n) ==
    [LATITUDE |-> lat, LONGITUDE |-> lon, DATE |-> date,
     INTNAME |-> name, AUTONBL |-> n]

LatIn == Str(<<"3", "7", ".", "5">>)
LonIn == Str(<<"-", "1", "2", "2", ".", "0">>)

SampleRows ==
    { Raw(LatIn, LonIn, Str(<<"1">>), Str("A"), Num(5)),
      Raw(LatIn, LonIn, Str(<<"2", "T", "1">>), Str("A"), Num(7)),
      Raw(Num(375), LonIn, Str(<<"2">>), Str("B"), Num(20)),
      Raw(Str(<<"3", "7", ".", "0">>), LonIn, Str(<<"1">>), Str("B"), Num(7)),
      Raw(LatIn, Null, Str(<<"2">>), Str("B"), Num(5)),
      Raw(LatIn, LonIn, Str(<<"1", "T", "1">>), Null, Null) }

\* One row on each boundary of the box, and one inside.
BoundaryTable ==
    << Raw(Str(<<"3", "7">>), LonIn, Str(<<"1">>), Str("A"), Num(5)),
       Raw(Str(<<"3", "8", ".", "0">>), LonIn, Str(<<"1">>), Str("A"), Num(5)),
       Raw(LatIn, Str(<<"-", "1", "2", "2", ".", "5">>), Str(<<"1">>), Str("B"), Num(5)),
       Raw(LatIn, Num(-1215), Str(<<"2">>), Str("B"), Num(5)),
       Raw(LatIn, Str(<<"-", "1", "2", "1", ".", "6">>), Str(<<"2">>), Str("B"), Num(5)) >>

\* One null or unparsable value in each required column.
DirtyTable ==
    << Raw(Null, LonIn, Str(<<"1">>), Str("A"), Num(5)),
       Raw(Str(<<"a", "b", "c">>), LonIn, Str(<<"1">>), Str("A"), Num(20)),
       Raw(LatIn, LonIn, Str(<<"1", "T", "x">>), Str("A"), Num(7)),
       Raw(LatIn, Str(<<"1", "2", ".", ".", "5">>), Str(<<"1">>), Str("A"), Num(5)),
       Raw(LatIn, LonIn, Null, Str("B"), Num(20)),
       Raw(LatIn, LonIn, Str(<<"2", "T", "9">>), Str("B"), Num(20)),
       Raw(LatIn, LonIn, Ts(3), Str("B"), Null) >>

RECURSIVE SeqsUpTo(_, _)
SeqsUpTo(S, n) ==
    IF n = 0 THEN {<<>>}
    ELSE LET shorter == SeqsUpTo(S, n - 1)
         IN  shorter \cup {Append(t, r) : t \in shorter, r \in S}

\* The example of the aggregation: {(A,5), (A,7), (B,20)}.
ExampleTable ==
    << Raw(LatIn, LonIn, Str(<<"1">>), Str("A"), Num(5)),
       Raw(LatIn, LonIn, Str(<<"1", "T", "1">>), Str("A"), Num(7)),
       Raw(Num(375), LonIn, Str(<<"2">>), Str("B"), Num(20)) >>

\* More intersections than the bar chart shows, the two smallest tied.
WideTable ==
    [i \in 1..(TopN + 1) |->
        Raw(LatIn, LonIn, Str(<<"1">>), Str(ToString(i)),
            Num(IF i = 1 THEN 2 ELSE i))]

SourceTables ==
    SeqsUpTo(SampleRows, MaxRows)
        \cup {ExampleTable, WideTable, BoundaryTable, DirtyTable}

\* A row of the destination table (the index is not uploaded).
Stored(r) ==
    [LATITUDE |-> r.LATITUDE, LONGITUDE |-> r.LONGITUDE, DATE |-> r.DATE,
     INTNAME |-> r.INTNAME, AUTONBL |-> r.AUTONBL]

StaleRow == Raw(Num(375), Num(-1220), Ts(0), Str("old"), Num(1))


\* ------------------------------------------------------------------ state
VARIABLES
    source,                 \* TMC.TurningMC, the rows the fetch reads
    dest,                   \* TMC.CleanedTurningMC, a bag of stored rows
    wb_ok,                  \* write-backs completed so far
    wb_failed,              \* write-backs that raised so far
    pc,                     \* pc[s]: position of session s in the script ("off": no such session)
    runs,                   \* runs[s]: runs started by session s
    df,
    df_cleaned,
    date_range,
    selected_intersection,
    filtered_df,
    top_intersections,
    autosbl,
    autosbt,
    clicked,                \* what st.button returned in this run
    ml_query,               \* the input columns of the prediction query sent
    ml_result,              \* the column the prediction query returned
    prediction,             \* the text of the st.success message, "" if none
    failed,                 \* the external call that raised in this run
    log                     \* calls made and elements rendered in this run

shared == <<source, dest, wb_ok, wb_failed>>
frames == <<df, df_cleaned, filtered_df, top_intersections>>
widgets == <<date_range, selected_intersection, autosbl, autosbt, clicked>>
predict == <<ml_query, ml_result, prediction>>
vars ==
    <<source, dest, wb_ok, wb_failed, pc, runs, df, df_cleaned,
      date_range, selected_intersection, filtered_df, top_intersections,
      autosbl, autosbt, clicked, ml_query, ml_result, prediction, failed, log>>

\* ------------------------------------------------------- data frame steps
Min(a, b) == IF a < b THEN a ELSE b

\* client.query(query).to_dataframe(): at most RowLimit rows, RangeIndex.
to_dataframe(table) ==
    [i \in 1..Min(Len(table), RowLimit) |-> [idx |-> i - 1] @@ table[i]]

\* The three column assignments of the coercion.
Coerce(d) ==
    [i \in DOMAIN d |->
        [d[i] EXCEPT !.LATITUDE = to_numeric(@),
                     !.LONGITUDE = to_numeric(@),
                     !.DATE = to_datetime(@)]]

dropna(d, subset) == SelectSeq(d, LAMBDA r : \A c \in subset : ~isna(r[c]))

\* A dropna that forgets the DATE column.
CleanSubsetNoDate == {"LATITUDE", "LONGITUDE"}

CleanSubset == {"LATITUDE", "LONGITUDE", "DATE"}

\* A box that keeps its own boundary.
InBoxClosed(r) ==
    /\ r.LATITUDE.v >= LatLow
    /\ r.LATITUDE.v <= LatHigh
    /\ r.LONGITUDE.v >= LonLow
    /\ r.LONGITUDE.v <= LonHigh

InBox(r) ==
    /\ r.LATITUDE.v > LatLow
    /\ r.LATITUDE.v < LatHigh
    /\ r.LONGITUDE.v > LonLow
    /\ r.LONGITUDE.v < LonHigh

BoundingBoxFilter(d) == SelectSeq(d, InBox)

RECURSIVE BagOfRows(_)
BagOfRows(d) ==
    IF d = <<>> THEN EmptyBag
    ELSE BagOfRows(Tail(d)) (+) SetToBag({Stored(Head(d))})

\* if_exists="append".
IfExistsAppend(existing, uploaded) == existing (+) uploaded

\* to_gbq(..., if_exists="replace"): the table's contents after the upload.
IfExists(existing, uploaded) == uploaded

Rows(d) == {d[i] : i \in DOMAIN d}

MinOf(S) == CHOOSE x \in S : \A y \in S : x <= y
MaxOf(S) == CHOOSE x \in S : \A y \in S : x >= y

\* [default_start, default_end] as the date picker delivers it: two dates.
DefaultRange(d) ==
    LET stamps == {r.DATE.v : r \in Rows(d)}
    IN  <<DateOf(MinOf(stamps)), DateOf(MaxOf(stamps))>>

Days == 1..MaxDay
UserRanges == {<<a, b>> : a \in Days, b \in Days} \cup {<<a>> : a \in Days}
PickedRanges == {r \in UserRanges : Len(r) = 2 => r[1] <= r[2]}

\* A range that excludes its last instant.
InRangeOpenEnd(r, range) ==
    /\ r.DATE.v >= DateToTimestamp(range[1])
    /\ r.DATE.v < DateToTimestamp(range[2])

InRange(r, range) ==
    /\ r.DATE.v >= DateToTimestamp(range[1])
    /\ r.DATE.v <= DateToTimestamp(range[2])

DateFilter(d, range) == SelectSeq(d, LAMBDA r : InRange(r, range))

\* df_cleaned["INTNAME"].dropna().unique()
unique_intersections(d) == {r.INTNAME.s : r \in {x \in Rows(d) : ~isna(x.INTNAME)}}

IntersectionFilter(d, sel) ==
    IF sel # "All"
    THEN SelectSeq(d, LAMBDA r : ~isna(r.INTNAME) /\ r.INTNAME.s = sel)
    ELSE d

RECURSIVE SumOf(_, _)
\* .sum() of AUTONBL over the rows of one group; a null count adds nothing.
SumOf(d, name) ==
    IF d = <<>> THEN 0
    ELSE LET r == Head(d)
             n == IF ~isna(r.INTNAME) /\ r.INTNAME.s = name /\ ~isna(r.AUTONBL)
                  THEN r.AUTONBL.v ELSE 0
         IN  n + SumOf(Tail(d), name)

\* groupby('INTNAME')['AUTONBL'].sum().reset_index()
GroupSum(d) ==
    {[INTNAME |-> name, AUTONBL |-> SumOf(d, name)] : name \in unique_intersections(d)}

\* ascending=True.
BeforeAscending(a, b) == a <= b

\* ascending=False: a comes no later than b.
Before(a, b) == a >= b

RECURSIVE sort_values(_)
\* Every order of the groups the sort may produce (ties in any order).
sort_values(G) ==
    IF G = {} THEN {<<>>}
    ELSE UNION { {<<g>> \o t : t \in sort_values(G \ {g})} :
                 g \in {x \in G : \A y \in G : Before(x.AUTONBL, y.AUTONBL)} }

head(t, n) == SubSeq(t, 1, Min(Len(t), n))

\* f"{value:.2f}" of a value given in hundredths.
Format2f(v) ==
    ToString(v \div 100) \o "." \o
    (IF v % 100 < 10 THEN "0" ELSE "") \o ToString(v % 100)

\* What the prediction query can return: a column of nullable numbers.
MlResults == {<<>>, <<Num(1234)>>, <<Null, Num(1234)>>, <<Num(5)>>}

\* A handler whose else branch covers the empty result only.
SurfacedEmptyOnly(result) ==
    IF result = <<>> THEN "no_prediction"
    ELSE IF ~isna(result[1]) THEN "success" ELSE "nothing"

\* The branch of the prediction handler taken for a returned column.
Surfaced(result) ==
    IF result # <<>> /\ ~isna(result[1]) THEN "success" ELSE "no_prediction"

\* A fetch wrapped in a try that goes on with an empty frame.
CaughtQuery(step) == IF step = "query" THEN "dropna" ELSE "fault"

\* A write-back wrapped in a try that goes on to render.
CaughtToGbq(step) == IF step = "to_gbq" THEN "header" ELSE "fault"

\* An exception nothing catches: the run stops and the page shows it.
Uncaught(step) == "fault"


\* ---------------------------------------------------------------- actions
Upd(f, s, v) == [f EXCEPT ![s] = v]

Logged(s, events) == log' = Upd(log, s, log[s] \o events)

\* The position after a raised exception, and the page's exception box.
Raised(s, step) ==
    /\ failed' = Upd(failed, s, step)
    /\ pc' = Upd(pc, s, Uncaught(step))
    /\ Logged(s, <<step, "exception">>)

Fresh(v) == [s \in Sessions |-> v]

InitRun ==
    /\ runs = Fresh(0)
    /\ df = Fresh(<<>>)
    /\ df_cleaned = Fresh(<<>>)
    /\ date_range = Fresh(<<>>)
    /\ selected_intersection = Fresh("All")
    /\ filtered_df = Fresh(<<>>)
    /\ top_intersections = Fresh(<<>>)
    /\ autosbl = Fresh(AutosblDefault)
    /\ autosbt = Fresh(AutosbtDefault)
    /\ clicked = Fresh(FALSE)
    /\ ml_query = Fresh(<<>>)
    /\ ml_result = Fresh(<<>>)
    /\ prediction = Fresh("")
    /\ failed = Fresh("none")
    /\ log = Fresh(<<>>)

InitShared ==
    /\ source \in SourceTables
    /\ dest = SetToBag({StaleRow})
    /\ wb_ok = 0
    /\ wb_failed = 0

Init ==
    /\ InitShared
    /\ InitRun
    /\ pc = [s \in Sessions |-> IF s = 1 THEN "idle" ELSE "off"]

InitConc ==
    /\ InitShared
    /\ InitRun
    /\ pc = Fresh("idle")

\* An interaction (or the first page load) re-executes the script from the
\* top: nothing of the previous run survives but the destination table.
StartRun(s) ==
    /\ pc[s] \in {"idle", "done", "fault"}
    /\ runs[s] < MaxRuns
    /\ runs' = Upd(runs, s, runs[s] + 1)
    /\ pc' = Upd(pc, s, "Client")
    /\ df' = Upd(df, s, <<>>)
    /\ df_cleaned' = Upd(df_cleaned, s, <<>>)
    /\ date_range' = Upd(date_range, s, <<>>)
    /\ selected_intersection' = Upd(selected_intersection, s, "All")
    /\ filtered_df' = Upd(filtered_df, s, <<>>)
    /\ top_intersections' = Upd(top_intersections, s, <<>>)
    /\ autosbl' = Upd(autosbl, s, AutosblDefault)
    /\ autosbt' = Upd(autosbt, s, AutosbtDefault)
    /\ clicked' = Upd(clicked, s, FALSE)
    /\ ml_query' = Upd(ml_query, s, <<>>)
    /\ ml_result' = Upd(ml_result, s, <<>>)
    /\ prediction' = Upd(prediction, s, "")
    /\ failed' = Upd(failed, s, "none")
    /\ log' = Upd(log, s, <<>>)
    /\ UNCHANGED shared

\* client = bigquery.Client(project=...)
CreateClient(s) ==
    /\ pc[s] = "Client"
    /\ \E ok \in BOOLEAN :
        IF ok
        THEN /\ pc' = Upd(pc, s, "query")
             /\ Logged(s, <<"Client">>)
             /\ UNCHANGED failed
        ELSE Raised(s, "Client")
    /\ UNCHANGED <<shared, runs, frames, widgets, predict>>

\* df = client.query(query).to_dataframe()
Fetch(s) ==
    /\ pc[s] = "query"
    /\ \E ok \in BOOLEAN :
        IF ok
        THEN /\ pc' = Upd(pc, s, "dropna")
             /\ df' = Upd(df, s, to_dataframe(source))
             /\ Logged(s, <<"query">>)
             /\ UNCHANGED failed
        ELSE /\ Raised(s, "query")
             /\ UNCHANGED df
    /\ UNCHANGED <<shared, runs, df_cleaned, filtered_df, top_intersections,
                   widgets, predict>>

\* The coercions and df_cleaned = df.dropna(subset=[...]).
DropNa(s) ==
    /\ pc[s] = "dropna"
    /\ df' = Upd(df, s, Coerce(df[s]))
    /\ df_cleaned' = Upd(df_cleaned, s, dropna(Coerce(df[s]), CleanSubset))
    /\ pc' = Upd(pc, s, "bbox")
    /\ Logged(s, <<"dropna">>)
    /\ UNCHANGED <<shared, runs, filtered_df, top_intersections, widgets,
                   predict, failed>>

\* The bounding box (the two means are computed and never read).
BoundingBox(s) ==
    /\ pc[s] = "bbox"
    /\ df_cleaned' = Upd(df_cleaned, s, BoundingBoxFilter(df_cleaned[s]))
    /\ pc' = Upd(pc, s, "to_gbq")
    /\ Logged(s, <<"bbox">>)
    /\ UNCHANGED <<shared, runs, df, filtered_df, top_intersections, widgets,
                   predict, failed>>

\* df_cleaned.to_gbq(destination_table=table_id, ..., if_exists="replace")
WriteBack(s) ==
    /\ pc[s] = "to_gbq"
    /\ \E ok \in BOOLEAN :
        IF ok
        THEN /\ dest' = IfExists(dest, BagOfRows(df_cleaned[s]))
             /\ wb_ok' = wb_ok + 1
             /\ pc' = Upd(pc, s, "header")
             /\ Logged(s, <<"to_gbq">>)
             /\ UNCHANGED <<wb_failed, failed>>
        ELSE /\ dest' \in {dest, EmptyBag}
             /\ wb_failed' = wb_failed + 1
             /\ Raised(s, "to_gbq")
             /\ UNCHANGED wb_ok
    /\ UNCHANGED <<source, runs, frames, widgets, predict>>

\* st.title, st.markdown, st.sidebar.header
Header(s) ==
    /\ pc[s] = "header"
    /\ pc' = Upd(pc, s, "date_input")
    /\ Logged(s, <<"title", "sidebar_header">>)
    /\ UNCHANGED <<shared, runs, frames, widgets, predict, failed>>

\* The second dropna, the defaults and st.sidebar.date_input.  The picker
\* delivers the default range, a range the user picked, or a single date
\* while the user is still picking; what it does with NaT defaults (an
\* empty table) is not decided by the script.
DateInput(s) ==
    /\ pc[s] = "date_input"
    /\ LET cleaned == dropna(df_cleaned[s], {"DATE"})
       IN  /\ df_cleaned' = Upd(df_cleaned, s, cleaned)
           /\ \/ /\ cleaned # <<>>
                 /\ \E r \in PickedRanges \cup {DefaultRange(cleaned)} :
                        date_range' = Upd(date_range, s, r)
                 /\ pc' = Upd(pc, s, "filter_date")
                 /\ Logged(s, <<"date_input">>)
              \/ /\ cleaned = <<>>
                 /\ \E r \in PickedRanges : date_range' = Upd(date_range, s, r)
                 /\ pc' = Upd(pc, s, "filter_date")
                 /\ Logged(s, <<"date_input">>)
              \/ /\ cleaned = <<>>
                 /\ UNCHANGED date_range
                 /\ pc' = Upd(pc, s, "fault")
                 /\ Logged(s, <<"exception">>)
    /\ UNCHANGED <<shared, runs, df, filtered_df, top_intersections,
                   selected_intersection, autosbl, autosbt, clicked, predict,
                   failed>>

\* filtered_df = df_cleaned[(DATE >= date_range[0]) & (DATE <= date_range[1])]
FilterDate(s) ==
    /\ pc[s] = "filter_date"
    /\ IF Len(date_range[s]) < 2
       THEN /\ pc' = Upd(pc, s, "fault")
            /\ Logged(s, <<"exception">>)
            /\ UNCHANGED filtered_df
       ELSE /\ filtered_df' = Upd(filtered_df, s, DateFilter(df_cleaned[s], date_range[s]))
            /\ pc' = Upd(pc, s, "selectbox")
            /\ UNCHANGED log
    /\ UNCHANGED <<shared, runs, df, df_cleaned, top_intersections, widgets,
                   predict, failed>>

\* st.sidebar.selectbox("Select Intersection", ["All"] + unique_intersections)
SelectIntersection(s) ==
    /\ pc[s] = "selectbox"
    /\ \E sel \in {"All"} \cup unique_intersections(df_cleaned[s]) :
           selected_intersection' = Upd(selected_intersection, s, sel)
    /\ pc' = Upd(pc, s, "filter_intersection")
    /\ Logged(s, <<"selectbox">>)
    /\ UNCHANGED <<shared, runs, frames, date_range, autosbl, autosbt, clicked,
                   predict, failed>>

\* if selected_intersection != "All": filtered_df = filtered_df[INTNAME == ...]
FilterIntersection(s) ==
    /\ pc[s] = "filter_intersection"
    /\ filtered_df' =
           Upd(filtered_df, s, IntersectionFilter(filtered_df[s], selected_intersection[s]))
    /\ pc' = Upd(pc, s, "bar_chart")
    /\ UNCHANGED <<shared, runs, df, df_cleaned, top_intersections, widgets,
                   predict, failed, log>>

\* top_intersections and the bar chart.
BarChart(s) ==
    /\ pc[s] = "bar_chart"
    /\ \E t \in sort_values(GroupSum(filtered_df[s])) :
           top_intersections' = Upd(top_intersections, s, head(t, TopN))
    /\ pc' = Upd(pc, s, "charts")
    /\ Logged(s, <<"bar_chart">>)
    /\ UNCHANGED <<shared, runs, df, df_cleaned, filtered_df, widgets, predict,
                   failed>>

\* The line chart, the map, the embedded report and the data preview.
Charts(s) ==
    /\ pc[s] = "charts"
    /\ pc' = Upd(pc, s, "number_input")
    /\ Logged(s, <<"line_chart", "map_chart", "iframe", "preview">>)
    /\ UNCHANGED <<shared, runs, frames, widgets, predict, failed>>

\* What the user may leave or type in the two number inputs.
NumberInputValues == {<<AutosblDefault, AutosbtDefault>>, <<0, 7>>}

\* The two st.number_input widgets (min_value=0, defaults 10 and 100).
NumberInputs(s) ==
    /\ pc[s] = "number_input"
    /\ \E v \in NumberInputValues :
        /\ autosbl' = Upd(autosbl, s, v[1])
        /\ autosbt' = Upd(autosbt, s, v[2])
    /\ pc' = Upd(pc, s, "button")
    /\ Logged(s, <<"number_inputs">>)
    /\ UNCHANGED <<shared, runs, frames, date_range, selected_intersection,
                   clicked, predict, failed>>

\* if st.button("Predict Future Vehicle Movement"):
Button(s) ==
    /\ pc[s] = "button"
    /\ \E c \in BOOLEAN :
        /\ clicked' = Upd(clicked, s, c)
        /\ pc' = Upd(pc, s, IF c THEN "ml_query" ELSE "done")
    /\ Logged(s, <<"button">>)
    /\ UNCHANGED <<shared, runs, frames, date_range, selected_intersection,
                   autosbl, autosbt, predict, failed>>

\* The body of the if: the query, then st.success or st.error; the except
\* clause turns any exception into st.error.
Predict(s) ==
    /\ pc[s] = "ml_query"
    /\ ml_query' = Upd(ml_query, s, <<autosbl[s], autosbt[s]>>)
    /\ \/ \E result \in MlResults :
            /\ ml_result' = Upd(ml_result, s, result)
            /\ Logged(s, <<"ml_query", Surfaced(result)>>)
            /\ prediction' =
                   Upd(prediction, s,
                       IF Surfaced(result) = "success"
                       THEN Format2f(result[1].v) ELSE "")
            /\ UNCHANGED failed
       \/ /\ Logged(s, <<"ml_query", "predict_error">>)
          /\ failed' = Upd(failed, s, "ml_query")
          /\ UNCHANGED <<ml_result, prediction>>
    /\ pc' = Upd(pc, s, "done")
    /\ UNCHANGED <<shared, runs, frames, widgets>>

Step(s) ==
    \/ StartRun(s)
    \/ CreateClient(s)
    \/ Fetch(s)
    \/ DropNa(s)
    \/ BoundingBox(s)
    \/ WriteBack(s)
    \/ Header(s)
    \/ DateInput(s)
    \/ FilterDate(s)
    \/ SelectIntersection(s)
    \/ FilterIntersection(s)
    \/ BarChart(s)
    \/ Charts(s)
    \/ NumberInputs(s)
    \/ Button(s)
    \/ Predict(s)

Next == \E s \in Sessions : Step(s)

Spec == Init /\ [][Next]_vars

\* Two sessions; only the steps up to the write-back read or write the
\* destination table, and the sessions are interleaved step by step.
StepConc(s) ==
    \/ StartRun(s)
    \/ CreateClient(s)
    \/ Fetch(s)
    \/ DropNa(s)
    \/ BoundingBox(s)
    \/ WriteBack(s)

NextConc == \E s \in Sessions : StepConc(s)

SpecConc == InitConc /\ [][NextConc]_vars


\* ----------------------------------------------------------- properties
Count(seq, e) == Cardinality({i \in DOMAIN seq : seq[i] = e})
Did(s, e) == Count(log[s], e) > 0
FirstAt(seq, e) == MinOf({i \in DOMAIN seq : seq[i] = e})

Rendered ==
    {"title", "sidebar_header", "date_input", "selectbox", "bar_chart",
     "line_chart", "map_chart", "iframe", "preview", "number_inputs", "button"}
PredictionMessages == {"success", "no_prediction", "predict_error"}

RenderedIn(seq) == {i \in DOMAIN seq : seq[i] \in Rendered \cup PredictionMessages}

DateFiltered(s) == pc[s] \in {"selectbox", "filter_intersection"}
Filtered(s) ==
    pc[s] \in {"bar_chart", "charts", "number_input", "button", "ml_query", "done"}

Index(d) == {r.idx : r \in Rows(d)}

\* The raw row fails a coercion or holds a null in a required column.
Unclean(raw) ==
    \/ isna(to_numeric(raw.LATITUDE))
    \/ isna(to_numeric(raw.LONGITUDE))
    \/ isna(to_datetime(raw.DATE))

\* C1: after the coercions and the dropna, every row of df_cleaned has a
\* numeric LATITUDE, a numeric LONGITUDE and a timestamp DATE, and a raw row
\* of which one of the three is null or fails its coercion is absent.
C1_CleanedRowsAreTyped ==
    \A s \in Sessions :
        Did(s, "dropna") =>
            /\ \A r \in Rows(df_cleaned[s]) :
                   /\ r.LATITUDE.k = "num"
                   /\ r.LONGITUDE.k = "num"
                   /\ r.DATE.k = "ts"
            /\ \A i \in 1..Len(source) :
                   Unclean(source[i]) => (i - 1) \notin Index(df_cleaned[s])

\* A row with a bad DATE only was dropped and another row was kept.
C1_Witness ==
    /\ pc[1] = "bbox"
    /\ df_cleaned[1] # <<>>
    /\ \E r \in Rows(df[1]) :
           /\ isna(r.DATE)
           /\ ~isna(r.LATITUDE)
           /\ ~isna(r.LONGITUDE)
           /\ r.idx \notin Index(df_cleaned[1])

\* C2: after the bounding box every row of df_cleaned (and so of the views
\* made of it) lies strictly inside the box; a row on a boundary is dropped.
C2_StrictlyInsideBox ==
    \A s \in Sessions :
        Did(s, "bbox") =>
            /\ \A r \in Rows(df_cleaned[s]) \cup Rows(filtered_df[s]) :
                   /\ LatLow < r.LATITUDE.v
                   /\ r.LATITUDE.v < LatHigh
                   /\ LonLow < r.LONGITUDE.v
                   /\ r.LONGITUDE.v < LonHigh
            /\ \A r \in Rows(df[s]) :
                   (\/ r.LATITUDE = Num(LatLow)
                    \/ r.LATITUDE = Num(LatHigh)
                    \/ r.LONGITUDE = Num(LonLow)
                    \/ r.LONGITUDE = Num(LonHigh))
                       => r.idx \notin Index(df_cleaned[s])

\* A row exactly on the southern boundary was dropped, another row kept.
C2_Witness ==
    /\ pc[1] = "to_gbq"
    /\ df_cleaned[1] # <<>>
    /\ \E r \in Rows(df[1]) :
           /\ r.LATITUDE = Num(LatLow)
           /\ ~isna(r.LONGITUDE)
           /\ LonLow < r.LONGITUDE.v
           /\ r.LONGITUDE.v < LonHigh
           /\ ~isna(r.DATE)


\* The cleaned rows whose DATE lies in [d0, d1], both ends included, the
\* dates taken as midnight timestamps.
WithinRange(d, range) ==
    {r \in Rows(d) :
        /\ DateToTimestamp(range[1]) <= r.DATE.v
        /\ r.DATE.v <= DateToTimestamp(range[2])}

Named(R, name) == {r \in R : r.INTNAME = Str(name)}

\* C3: the date step keeps exactly the cleaned rows with d0 <= DATE <= d1;
\* with "All" the category step removes nothing; with a category it keeps
\* exactly the rows of that INTNAME.
C3_FilteredView ==
    \A s \in Sessions :
        /\ DateFiltered(s) =>
               Rows(filtered_df[s]) = WithinRange(df_cleaned[s], date_range[s])
        /\ Filtered(s) =>
               /\ Rows(filtered_df[s]) \subseteq WithinRange(df_cleaned[s], date_range[s])
               /\ selected_intersection[s] = "All" =>
                      Rows(filtered_df[s]) = WithinRange(df_cleaned[s], date_range[s])
               /\ selected_intersection[s] # "All" =>
                      Rows(filtered_df[s]) =
                          Named(WithinRange(df_cleaned[s], date_range[s]),
                                selected_intersection[s])
               /\ Len(filtered_df[s]) = Cardinality(Rows(filtered_df[s]))

\* A category is selected, a row of another category is removed, and a kept
\* row lies exactly on the end of the range.
C3_Witness ==
    /\ pc[1] = "bar_chart"
    /\ selected_intersection[1] # "All"
    /\ Len(filtered_df[1]) < Cardinality(WithinRange(df_cleaned[1], date_range[1]))
    /\ \E r \in Rows(filtered_df[1]) : r.DATE.v = DateToTimestamp(date_range[1][2])

CountOf(r) == IF isna(r.AUTONBL) THEN 0 ELSE r.AUTONBL.v

RECURSIVE TotalOf(_)
TotalOf(R) ==
    IF R = {} THEN 0
    ELSE LET r == CHOOSE x \in R : TRUE
         IN  CountOf(r) + TotalOf(R \ {r})

Pairs(d) ==
    [i \in DOMAIN d |->
        <<IF isna(d[i].INTNAME) THEN "" ELSE d[i].INTNAME.s, CountOf(d[i])>>]

\* C4: top_intersections has at most 10 rows, one row an intersection, in
\* descending order of the sum, and each sum is the sum of AUTONBL over the
\* filtered rows of that INTNAME; {(A,5), (A,7), (B,20)} yields
\* [(B,20), (A,12)].
C4_TopIntersections ==
    \A s \in Sessions :
        Did(s, "bar_chart") =>
            LET top == top_intersections[s]
            IN  /\ Len(top) <= 10
                /\ \A i, j \in DOMAIN top :
                       /\ i < j => top[i].AUTONBL >= top[j].AUTONBL
                       /\ i # j => top[i].INTNAME # top[j].INTNAME
                /\ \A i \in DOMAIN top :
                       /\ Named(Rows(filtered_df[s]), top[i].INTNAME) # {}
                       /\ top[i].AUTONBL =
                              TotalOf(Named(Rows(filtered_df[s]), top[i].INTNAME))
                /\ Pairs(filtered_df[s]) = <<<<"A", 5>>, <<"A", 7>>, <<"B", 20>>>> =>
                       top = <<[INTNAME |-> "B", AUTONBL |-> 20],
                               [INTNAME |-> "A", AUTONBL |-> 12]>>

\* More than ten intersections in the view, ten of them in the chart.
C4_Witness ==
    /\ Did(1, "bar_chart")
    /\ Len(top_intersections[1]) = 10
    /\ Cardinality(unique_intersections(filtered_df[1])) > 10

\* The cleaned table of a source, as the destination table holds it.
CleanedTableOf(table) ==
    BagOfRows(BoundingBoxFilter(dropna(Coerce(to_dataframe(table)), CleanSubset)))

\* C5: after one or more write-backs, none of which failed, the destination
\* table is the cleaned table of the source, whatever it held before and
\* whatever the widgets of the runs delivered.
C5_WriteBackIdempotent ==
    (wb_ok >= 1 /\ wb_failed = 0) => dest = CleanedTableOf(source)

\* Two complete runs over a source of which a row survives the cleaning,
\* the second with the prediction button clicked.
C5_Witness ==
    /\ wb_ok = 2
    /\ wb_failed = 0
    /\ pc[1] = "done"
    /\ clicked[1]
    /\ dest # EmptyBag

MessagesIn(seq) == {i \in DOMAIN seq : seq[i] \in PredictionMessages}

\* C6: a finished run in which the button was clicked shows exactly one
\* prediction message: the formatted value for a non-empty result with a
\* non-null first value, "no prediction available" for an empty or null
\* one, an error message when the query raised (the run goes on to its end);
\* a finished run in which it was not clicked sends no query and shows none.
C6_OnePredictionMessage ==
    \A s \in Sessions :
        pc[s] = "done" =>
            IF clicked[s]
            THEN /\ Cardinality(MessagesIn(log[s])) = 1
                 /\ Count(log[s], "ml_query") = 1
                 /\ ~Did(s, "exception")
                 /\ IF failed[s] = "ml_query"
                    THEN Did(s, "predict_error")
                    ELSE IF ml_result[s] # <<>> /\ ml_result[s][1] # Null
                    THEN /\ Did(s, "success")
                         /\ prediction[s] # ""
                         /\ ml_result[s][1] = Num(1234) => prediction[s] = "12.34"
                         /\ ml_result[s][1] = Num(5) => prediction[s] = "0.05"
                    ELSE Did(s, "no_prediction") /\ prediction[s] = ""
            ELSE /\ MessagesIn(log[s]) = {}
                 /\ ~Did(s, "ml_query")
                 /\ ml_query[s] = <<>>

\* The query returned a row whose first value is null.
C6_Witness ==
    /\ pc[1] = "done"
    /\ clicked[1]
    /\ ml_result[1] = <<Null, Num(1234)>>
    /\ Did(1, "no_prediction")

\* C7: when the client construction or the fetch raised, the run is stopped
\* with the exception shown, nothing was written back, nothing rendered,
\* and the call was made once.
C7_FetchFailureHalts ==
    \A s \in Sessions :
        failed[s] \in {"Client", "query"} =>
            /\ pc[s] = "fault"
            /\ log[s][Len(log[s])] = "exception"
            /\ ~Did(s, "to_gbq")
            /\ RenderedIn(log[s]) = {}
            /\ Count(log[s], "Client") <= 1
            /\ Count(log[s], "query") <= 1

\* The fetch of a second run raised after a first run wrote the table.
C7_Witness ==
    /\ failed[1] = "query"
    /\ runs[1] = 2
    /\ wb_ok = 1

\* C8: the write-back comes after the cleaning and before anything is
\* rendered; when it raised, the run is stopped, nothing was rendered and
\* the upload was tried once.
C8_WriteBackFailureAborts ==
    \A s \in Sessions :
        /\ RenderedIn(log[s]) # {} =>
               /\ Did(s, "to_gbq")
               /\ FirstAt(log[s], "to_gbq") < MinOf(RenderedIn(log[s]))
        /\ Did(s, "to_gbq") =>
               /\ Did(s, "dropna")
               /\ Did(s, "bbox")
               /\ FirstAt(log[s], "bbox") < FirstAt(log[s], "to_gbq")
               /\ FirstAt(log[s], "dropna") < FirstAt(log[s], "bbox")
        /\ failed[s] = "to_gbq" =>
               /\ pc[s] = "fault"
               /\ RenderedIn(log[s]) = {}
               /\ Count(log[s], "to_gbq") = 1

\* The upload of a non-empty cleaned table raised.
C8_Witness ==
    /\ failed[1] = "to_gbq"
    /\ pc[1] = "fault"
    /\ df_cleaned[1] # <<>>

\* C9: with the default range and "All", the filtered view is the whole
\* cleaned table.
C9_DefaultsShowEverything ==
    \A s \in Sessions :
        (/\ Filtered(s)
         /\ df_cleaned[s] # <<>>
         /\ date_range[s] = DefaultRange(df_cleaned[s])
         /\ selected_intersection[s] = "All")
            => filtered_df[s] = df_cleaned[s]

====
